---- MODULE Spec2Model ----
(***************************************************************************)
(* Model of the Zetsubou.life JavaScript SDK: the request pipeline of      *)
(* ZetsubouClient (constructor, response interceptor, request,            *)
(* handleError), the error classes of exceptions.ts, the headers of the    *)
(* outbound calls and JobsService.waitForCompletion.                       *)
(*                                                                         *)
(* Spec follows one logical call client.request(config) from its first     *)
(* attempt to the value it returns or the error it throws; PollSpec        *)
(* follows one waitForCompletion, each of whose status fetches is such a   *)
(* logical call; HeaderSpec follows the headers of one outbound call.      *)
(* ServiceSpec follows one call of a service method (graphql, downloads,   *)
(* webhooks, tools, chat) and the requests it hands to the client;         *)
(* MultiSpec follows concurrent logical calls of the clients constructed   *)
(* over one axios instance.                                                *)
(* The variables of the parts a specification does not move keep their     *)
(* initial values.  JavaScript                                             *)
(* values that may be undefined or NaN are tagged tuples: <<"undefined">>, *)
(* <<"NaN">>, <<"number", n>>.  Strings that the code parses are           *)
(* sequences of one-character strings; messages are sequences of text      *)
(* fragments, concatenated with \o as the code concatenates strings.       *)
(***************************************************************************)
EXTENDS Integers, Sequences, FiniteSets, TLC

VARIABLES
    cfgRetryAttempts,  \* config.retryAttempts as given to the constructor
    retryAttempts,     \* this.retryAttempts
    pc,                \* position of the logical call
    retry,             \* config.retry, the counter on the request config
    attempts,          \* attempts issued so far (transport invocations)
    inflight,          \* attempts issued and not yet resolved
    finalError,        \* the error of the attempt the interceptor gave up on
    delay,             \* delay of the backoff in progress, in ms
    slept,             \* time elapsed in the backoff in progress, in ms
    sleeps,            \* the completed backoffs of the call, in ms, in order
    rejection,         \* what the interceptor chain rejected with
    result,            \* the response request() returned
    thrown,            \* the error request() threw
    raisedCount,       \* errors thrown to the caller
    failures,          \* attempts that failed so far
    transientOnly,     \* every failed attempt so far was a network failure or a server error
    firstPermanent,    \* the first attempt ended with a 400, 401 or 404 response
    \* the clock
    now,               \* Date.now(), in ms
    fetchTime,         \* time that passed while a status fetch was awaited, in ms
    \* JobsService.waitForCompletion
    wpc,               \* position of the wait
    timeout,           \* its timeout argument, in ms
    pollInterval,      \* its pollInterval argument, in ms
    startTime,         \* const startTime = Date.now()
    fetches,           \* status fetches (this.get) issued so far
    fetchesInFlight,   \* status fetches issued and not yet resolved
    pollSlept,         \* time elapsed in the latest poll sleep, in ms
    pollSleeps,        \* poll sleeps completed
    nonTerminal,       \* status fetches that reported a non-terminal status
    lastJob,           \* the job the latest resolved status fetch reported
    observedAt,        \* Date.now() when lastJob was reported
    wresult,           \* the job the wait returned
    wthrown,           \* the error the wait threw
    abandoned,         \* the caller has stopped waiting for the promise
    \* the headers of one outbound call
    hpc,               \* position of the call
    instanceHeaders,   \* config.axiosInstance: << >>, or <<its default headers>>
    callKind,          \* the client method the call is made through
    sentHeaders,       \* the headers of the request handed to the transport
    \* one call of a service method
    spc,               \* position of the service call
    call,              \* the method called and its arguments
    requests,          \* the request configs handed to client.request, in order
    local,             \* const conversation of createAndSendMessage
    sreturned,         \* the value the method returned
    sthrown,           \* the error the method threw
    \* concurrent logical calls on one axios instance
    chain,             \* retryAttempts of the clients whose interceptor is
                       \* registered on the instance, in order of registration
    calls,             \* the logical calls: position, counters, outcome
    configRetry        \* config.retry of the request config objects

pipeVars == <<cfgRetryAttempts, retryAttempts, pc, retry, attempts, inflight,
              finalError, delay, slept, sleeps, rejection, result, thrown,
              raisedCount, failures, transientOnly, firstPermanent>>

clockVars == <<now, fetchTime>>

waitVars == <<wpc, timeout, pollInterval, startTime, fetches, fetchesInFlight,
              pollSlept, pollSleeps, nonTerminal, lastJob, observedAt, wresult,
              wthrown, abandoned>>

headerVars == <<hpc, instanceHeaders, callKind, sentHeaders>>

serviceVars == <<spc, call, requests, local, sreturned, sthrown>>

multiVars == <<chain, calls, configRetry>>

vars == <<pipeVars, clockVars, waitVars, headerVars, serviceVars, multiVars>>

----------------------------------------------------------------------------
(* Bounds of the model. *)

MaxRetryAttempts == 3
MaxHeaderLen == 2
MaxTimeoutSeconds == 12
MaxErrors == 2
MaxFiles == 2

(* Program constants. *)

DefaultRetryAttempts == 3
DefaultRetryAfter == 60
MsPerSecond == 1000

----------------------------------------------------------------------------
(* JavaScript values. *)

Undef == <<"undefined">>
NaN == <<"NaN">>
Num(n) == <<"number", n>>
IsNum(v) == Len(v) = 2
Val(v) == v[2]

\* ToBoolean of a number-or-undefined value: undefined, NaN and 0 are falsy.
Falsy(v) == ~IsNum(v) \/ Val(v) = 0

Max(a, b) == IF a >= b THEN a ELSE b

----------------------------------------------------------------------------
(* parseInt(string) with no radix, as ECMAScript defines it. *)

Chars == {"0", "6", "a", "x", "-", " "}

RECURSIVE StringsUpTo(_)
StringsUpTo(n) ==
    IF n = 0 THEN {<<>>}
    ELSE LET shorter == StringsUpTo(n - 1)
         IN shorter \cup {Append(s, c) : s \in shorter, c \in Chars}

DigitVal(c) ==
    CASE c = "0" -> 0
      [] c = "6" -> 6
      [] c = "a" -> 10
      [] OTHER -> 99

IsDigit(c, radix) == DigitVal(c) < radix

RECURSIVE TrimStart(_)
TrimStart(s) ==
    IF s # <<>> /\ Head(s) = " " THEN TrimStart(Tail(s)) ELSE s

\* The value of the longest prefix of s made of radix digits, acc being the
\* value of the digits read so far; <<acc, number of digits read>>.
RECURSIVE ReadDigits(_, _, _, _)
ReadDigits(s, radix, acc, n) ==
    IF s # <<>> /\ IsDigit(Head(s), radix)
    THEN ReadDigits(Tail(s), radix, acc * radix + DigitVal(Head(s)), n + 1)
    ELSE <<acc, n>>

ParseInt(str) ==
    LET s1 == TrimStart(str)
        neg == s1 # <<>> /\ Head(s1) = "-"
        s2 == IF neg THEN Tail(s1) ELSE s1
        hex == Len(s2) >= 2 /\ s2[1] = "0" /\ s2[2] = "x"
        s3 == IF hex THEN SubSeq(s2, 3, Len(s2)) ELSE s2
        radix == IF hex THEN 16 ELSE 10
        read == ReadDigits(s3, radix, 0, 0)
    IN IF read[2] = 0 THEN NaN
       ELSE Num(IF neg THEN 0 - read[1] ELSE read[1])

----------------------------------------------------------------------------
(* Errors and responses.                                                   *)
(*                                                                         *)
(* An error object has a class, a message, and the three properties the    *)
(* pipeline reads: config, request (present or not) and response (a        *)
(* sequence holding the response, empty when there is none).  retryAfter   *)
(* is the field of RateLimitError, undefined on every other class.         *)

NoHeader == [present |-> FALSE, value |-> <<>>]
Header(s) == [present |-> TRUE, value |-> s]

Response(status, message, payload, retryAfterHeader) ==
    [status |-> status,
     data |-> [message |-> message, payload |-> payload],
     retryAfter |-> retryAfterHeader]

NoValue == [cls |-> "none", message |-> <<>>, config |-> FALSE,
            request |-> FALSE, response |-> <<>>, retryAfter |-> Undef]

\* An error of the SDK's hierarchy (exceptions.ts): message and class name;
\* it has no config, request or response property.
SdkError(cls, message, retryAfter) ==
    [cls |-> cls, message |-> message, config |-> FALSE,
     request |-> FALSE, response |-> <<>>, retryAfter |-> retryAfter]

ZetsubouError(message) == SdkError("ZetsubouError", message, Undef)
ValidationError(message) == SdkError("ValidationError", message, Undef)
AuthenticationError(message) == SdkError("AuthenticationError", message, Undef)
NotFoundError(message) == SdkError("NotFoundError", message, Undef)
ServerError(message) == SdkError("ServerError", message, Undef)
RateLimitError(message, retryAfter) == SdkError("RateLimitError", message, retryAfter)

SdkClasses == {"ZetsubouError", "ValidationError", "AuthenticationError",
               "NotFoundError", "ServerError", "RateLimitError"}

\* The errors the transport rejects an attempt with.
\* A response with a status outside 2xx (axios' default validateStatus).
ResponseError(resp) ==
    [cls |-> "AxiosError",
     message |-> <<"Request failed with status code ", ToString(resp.status)>>,
     config |-> TRUE, request |-> TRUE, response |-> <<resp>>,
     retryAfter |-> Undef]

\* No response was received: connection failure or transport timeout.
NetworkError ==
    [cls |-> "AxiosError", message |-> <<"Network Error">>,
     config |-> TRUE, request |-> TRUE, response |-> <<>>, retryAfter |-> Undef]

\* The request could not be set up: the error carries its config only.
SetupError ==
    [cls |-> "AxiosError", message |-> <<"Invalid URL">>,
     config |-> TRUE, request |-> FALSE, response |-> <<>>, retryAfter |-> Undef]

\* An error that is no AxiosError (thrown while the request is prepared):
\* it has no config, request or response.
PlainError ==
    [cls |-> "Error", message |-> <<"boom">>,
     config |-> FALSE, request |-> FALSE, response |-> <<>>, retryAfter |-> Undef]

\* What `config.retry = 0` throws when config is undefined.
TypeErrorValue ==
    [cls |-> "TypeError",
     message |-> <<"Cannot set properties of undefined (setting 'retry')">>,
     config |-> FALSE, request |-> FALSE, response |-> <<>>, retryAfter |-> Undef]

----------------------------------------------------------------------------
(* ZetsubouClient.handleError *)

\* parseInt(error.response.headers['retry-after'] || '60')
RetryAfterOf(header) ==
    ParseInt(IF header.present /\ header.value # <<>>
             THEN header.value ELSE <<"6", "0">>)

\* data?.message || `HTTP ${status}`
MessageOf(resp) ==
    IF resp.data.message # <<>> THEN resp.data.message
    ELSE <<"HTTP ", ToString(resp.status)>>

\* Mutant of handleError: the error is passed on as it came.
handleErrorPassThrough(error) == error

handleError(error) ==
    IF error.response # <<>>
    THEN LET resp == error.response[1]
             status == resp.status
             message == MessageOf(resp)
         IN CASE status = 400 -> ValidationError(message)
              [] status = 401 -> AuthenticationError(message)
              [] status = 404 -> NotFoundError(message)
              [] status = 429 -> RateLimitError(message, RetryAfterOf(resp.retryAfter))
              [] status \in {500, 502, 503, 504} -> ServerError(message)
              [] OTHER -> ZetsubouError(message)
    ELSE IF error.request
    THEN ZetsubouError(<<"Network error: Unable to reach the API">>)
    ELSE ZetsubouError(<<"Request error: ">> \o error.message)

----------------------------------------------------------------------------
(* The inputs of the model: what the constructor is given and what the     *)
(* transport answers an attempt with.                                      *)

ConfigValues == {Undef} \cup {Num(n) : n \in 0..MaxRetryAttempts}

ErrorStatuses == {400, 401, 403, 404, 429, 500, 501, 502, 503, 504}
SuccessStatuses == {200, 204}
PermanentStatuses == {400, 401, 404}
DataMessages == {<<>>, <<"quota exceeded">>}
Payloads == {"p1", "p2"}

RetryAfterHeaders == {NoHeader} \cup {Header(s) : s \in StringsUpTo(MaxHeaderLen)}

\* The Retry-After header is read for a 429 only; other responses come without.
HeadersFor(status) == IF status = 429 THEN RetryAfterHeaders ELSE {NoHeader}

ErrorResponses ==
    UNION {{Response(st, m, "", h) : m \in DataMessages, h \in HeadersFor(st)} :
           st \in ErrorStatuses}

AttemptErrors ==
    {NetworkError, SetupError, PlainError} \cup {ResponseError(r) : r \in ErrorResponses}

SuccessResponses ==
    {Response(st, <<>>, p, NoHeader) : st \in SuccessStatuses, p \in Payloads}

NoResult == Response(0, <<>>, "", NoHeader)

\* The statuses handleError makes a ServerError of.
ServerErrorStatuses == {500, 502, 503, 504}

\* A network failure or a server-error response (case 500, 502, 503, 504).
IsTransient(error) ==
    IF error.response # <<>> THEN error.response[1].status \in ServerErrorStatuses
    ELSE error.request

IsPermanent(error) ==
    error.response # <<>> /\ error.response[1].status \in PermanentStatuses

----------------------------------------------------------------------------
(* The steps of the response interceptor. *)

\* this.retryAttempts = config.retryAttempts || 3
EffectiveRetryAttempts(given) ==
    IF Falsy(given) THEN DefaultRetryAttempts ELSE Val(given)

\* if (!config || !config.retry) config.retry = 0   (config present)
InitRetry(counter) == IF Falsy(counter) THEN 0 ELSE Val(counter)

\* Mutants of RetryExhausted: the comparison is off by one, either way.
RetryExhaustedStrict(counter, limit) == counter > limit
RetryExhaustedEarly(counter, limit) == counter + 1 >= limit

\* if (config.retry >= this.retryAttempts) reject
RetryExhausted(counter, limit) == counter >= limit

\* Mutant of NextRetry: the counter is not carried to the next attempt.
NextRetryStuck(counter) == counter

\* config.retry += 1
NextRetry(counter) == counter + 1

\* Mutant of BackoffDelay: linear instead of exponential.
BackoffDelayLinear(counter) == (2 * counter) * MsPerSecond

\* const delay = Math.pow(2, config.retry) * 1000
BackoffDelay(counter) == (2 ^ counter) * MsPerSecond

\* Mutant of BackoffElapsed: the sleep is not awaited.
BackoffElapsedNoAwait(elapsed, wanted) == TRUE

\* await new Promise(resolve => setTimeout(resolve, delay))
BackoffElapsed(elapsed, wanted) == elapsed >= wanted

\* No attempt count the pipeline can reach: a guard on the model's counters.
AttemptCap == Max(MaxRetryAttempts, DefaultRetryAttempts) + 2

----------------------------------------------------------------------------
(* Jobs, and the errors waitForCompletion throws. *)

\* response.data.job: its status and its optional error detail (a sequence
\* holding the detail, empty when job.error is undefined).
Job(status, error) == [present |-> TRUE, status |-> status, error |-> error]

\* response.data has no job property.
MissingJob == [present |-> FALSE, status |-> "", error |-> <<>>]

NoJob == [present |-> FALSE, status |-> "none", error |-> <<>>]

JobStatuses == {"pending", "running", "completed", "failed", "cancelled"}
TerminalStatuses == {"completed", "failed", "cancelled"}
ErrorDetails == {<<>>, <<"disk full">>}

Jobs ==
    {Job(st, <<>>) : st \in JobStatuses}
    \cup {Job("failed", e) : e \in ErrorDetails}
    \cup {MissingJob}

\* The 2xx responses of GET /api/v2/jobs/{jobId}.
JobResponses == {Response(200, <<>>, job, NoHeader) : job \in Jobs}

JobId == "job-1"

\* new Error(message)
PlainErrorOf(message) ==
    [cls |-> "Error", message |-> message, config |-> FALSE,
     request |-> FALSE, response |-> <<>>, retryAfter |-> Undef]

\* `${job.error}`
ErrorText(error) == IF error = <<>> THEN <<"undefined">> ELSE error

\* `Job ${jobId} failed: ${job.error}`
FailedMessage(jobId, error) == <<"Job ", jobId, " failed: ">> \o ErrorText(error)

\* `Job ${jobId} was cancelled`
CancelledMessage(jobId) == <<"Job ", jobId, " was cancelled">>

\* `Job ${jobId} timed out after ${timeout}ms`
TimeoutMessage(jobId, ms) == <<"Job ", jobId, " timed out after ", ToString(ms), "ms">>

\* What reading job.status throws when job is undefined.
MissingJobError ==
    [cls |-> "TypeError",
     message |-> <<"Cannot read properties of undefined (reading 'status')">>,
     config |-> FALSE, request |-> FALSE, response |-> <<>>, retryAfter |-> Undef]

----------------------------------------------------------------------------
(* The parts a specification does not move. *)

ClockInit ==
    /\ now = 0
    /\ fetchTime = 0

WaitOff ==
    /\ wpc = "off"
    /\ timeout = 0
    /\ pollInterval = 0
    /\ startTime = 0
    /\ fetches = 0
    /\ fetchesInFlight = 0
    /\ pollSlept = 0
    /\ pollSleeps = 0
    /\ nonTerminal = 0
    /\ lastJob = NoJob
    /\ observedAt = 0
    /\ wresult = NoJob
    /\ wthrown = NoValue
    /\ abandoned = FALSE

NoHeaders == [key |-> "", agent |-> "", contentType |-> ""]

HeadersOff ==
    /\ hpc = "off"
    /\ instanceHeaders = <<>>
    /\ callKind = "none"
    /\ sentHeaders = NoHeaders

NoCall == [op |-> "none"]
NoLocal == <<>>
NoReturn == <<"none">>

ServiceOff ==
    /\ spc = "off"
    /\ call = NoCall
    /\ requests = <<>>
    /\ local = NoLocal
    /\ sreturned = NoReturn
    /\ sthrown = NoValue

MultiOff ==
    /\ chain = <<>>
    /\ calls = <<>>
    /\ configRetry = <<>>

----------------------------------------------------------------------------
(* State machine of one logical call. *)

PipeInit ==
    /\ cfgRetryAttempts \in ConfigValues
    /\ retryAttempts = EffectiveRetryAttempts(cfgRetryAttempts)
    /\ pc = "idle"
    /\ retry = Undef
    /\ attempts = 0
    /\ inflight = 0
    /\ finalError = NoValue
    /\ delay = 0
    /\ slept = 0
    /\ sleeps = <<>>
    /\ rejection = NoValue
    /\ result = NoResult
    /\ thrown = NoValue
    /\ raisedCount = 0
    /\ failures = 0
    /\ transientOnly = TRUE
    /\ firstPermanent = FALSE

Init == PipeInit /\ ClockInit /\ WaitOff /\ HeadersOff /\ ServiceOff /\ MultiOff

\* request(config): this.axios.request(config) issues the first attempt.
Request ==
    /\ pc = "idle"
    /\ pc' = "inflight"
    /\ attempts' = attempts + 1
    /\ inflight' = inflight + 1
    /\ UNCHANGED <<cfgRetryAttempts, retryAttempts, retry, finalError, delay,
                   slept, sleeps, rejection, result, thrown, raisedCount,
                   failures, transientOnly, firstPermanent>>
    /\ UNCHANGED <<clockVars, waitVars, headerVars, serviceVars, multiVars>>

\* The attempt in flight is answered with a 2xx response: the interceptor's
\* first handler returns it, every pending retry promise resolves with it and
\* request() returns it.
AttemptSucceeds(resp) ==
    /\ pc = "inflight"
    /\ inflight' = inflight - 1
    /\ result' = resp
    /\ pc' = "returned"
    /\ UNCHANGED <<cfgRetryAttempts, retryAttempts, retry, attempts, finalError,
                   delay, slept, sleeps, rejection, thrown, raisedCount,
                   failures, transientOnly, firstPermanent>>
    /\ UNCHANGED <<clockVars, waitVars, headerVars, serviceVars, multiVars>>

\* The attempt in flight is rejected with error: the interceptor's second
\* handler runs up to its return or its await.
AttemptFails(error) ==
    /\ pc = "inflight"
    /\ inflight' = inflight - 1
    /\ failures' = failures + 1
    /\ transientOnly' = (transientOnly /\ IsTransient(error))
    /\ firstPermanent' = IF attempts = 1 THEN IsPermanent(error) ELSE firstPermanent
    /\ IF ~error.config
       THEN \* config is undefined: `config.retry = 0` throws a TypeError
            /\ rejection' = TypeErrorValue
            /\ finalError' = error
            /\ pc' = "catch"
            /\ UNCHANGED <<retry, delay, slept>>
       ELSE LET counter == InitRetry(retry)
            IN IF RetryExhausted(counter, retryAttempts)
               THEN /\ retry' = Num(counter)
                    /\ rejection' = handleError(error)
                    /\ finalError' = error
                    /\ pc' = "catch"
                    /\ UNCHANGED <<delay, slept>>
               ELSE /\ retry' = Num(NextRetry(counter))
                    /\ delay' = BackoffDelay(NextRetry(counter))
                    /\ slept' = 0
                    /\ pc' = "backoff"
                    /\ UNCHANGED <<rejection, finalError>>
    /\ UNCHANGED <<cfgRetryAttempts, retryAttempts, attempts, sleeps, result,
                   thrown, raisedCount>>
    /\ UNCHANGED <<clockVars, waitVars, headerVars, serviceVars, multiVars>>

\* One second of the backoff timer passes.
Tick ==
    /\ pc = "backoff"
    /\ slept < delay
    /\ slept' = slept + MsPerSecond
    /\ now' = now + MsPerSecond
    /\ fetchTime' = IF wpc = "fetching" THEN fetchTime + MsPerSecond ELSE fetchTime
    /\ UNCHANGED <<cfgRetryAttempts, retryAttempts, pc, retry, attempts, inflight,
                   finalError, delay, sleeps, rejection, result, thrown,
                   raisedCount, failures, transientOnly, firstPermanent>>
    /\ UNCHANGED <<waitVars, headerVars, serviceVars, multiVars>>

\* The timer has fired: return this.axios(config) issues the next attempt,
\* with the config that carries the counter.
Retry ==
    /\ pc = "backoff"
    /\ BackoffElapsed(slept, delay)
    /\ attempts < AttemptCap
    /\ sleeps' = Append(sleeps, slept)
    /\ attempts' = attempts + 1
    /\ inflight' = inflight + 1
    /\ pc' = "inflight"
    /\ UNCHANGED <<cfgRetryAttempts, retryAttempts, retry, finalError, delay,
                   slept, rejection, result, thrown, raisedCount, failures,
                   transientOnly, firstPermanent>>
    /\ UNCHANGED <<clockVars, waitVars, headerVars, serviceVars, multiVars>>

\* request()'s catch: throw this.handleError(error), error being what the
\* interceptor chain rejected with.
RequestCatch ==
    /\ pc = "catch"
    /\ thrown' = handleError(rejection)
    /\ raisedCount' = raisedCount + 1
    /\ pc' = "raised"
    /\ UNCHANGED <<cfgRetryAttempts, retryAttempts, retry, attempts, inflight,
                   finalError, delay, slept, sleeps, rejection, result,
                   failures, transientOnly, firstPermanent>>
    /\ UNCHANGED <<clockVars, waitVars, headerVars, serviceVars, multiVars>>

AttemptResolves ==
    \/ \E resp \in SuccessResponses : AttemptSucceeds(resp)
    \/ \E error \in AttemptErrors : AttemptFails(error)

Next ==
    \/ Request
    \/ \E resp \in SuccessResponses : AttemptSucceeds(resp)
    \/ \E error \in AttemptErrors : AttemptFails(error)
    \/ Tick
    \/ Retry
    \/ RequestCatch

Spec == Init /\ [][Next]_vars

\* The event loop runs every timer and every continuation that is ready, and
\* each attempt is assumed to resolve.
FairSpec ==
    /\ Spec
    /\ WF_vars(AttemptResolves)
    /\ WF_vars(Tick)
    /\ WF_vars(Retry)
    /\ WF_vars(RequestCatch)

Done == pc \in {"returned", "raised"}

----------------------------------------------------------------------------
(* The headers of an outbound call.  A set of headers is a record of the   *)
(* three headers the SDK deals with, "" standing for a header not set.     *)

ApiKey == "ztb_live_key"
SdkAgent == "zetsubou-sdk-javascript/VERSION"
JsonType == "application/json"
MultipartType == "multipart/form-data"

\* The headers the constructor gives axios.create.
CreatedHeaders(apiKey) ==
    [key |-> apiKey, agent |-> SdkAgent, contentType |-> JsonType]

\* this.axios = config.axiosInstance || axios.create({... headers ...})
ClientHeaders(instance, apiKey) ==
    IF instance # <<>> THEN instance[1] ELSE CreatedHeaders(apiKey)

\* The client methods and the service methods that send a body of their own.
BodilessKinds == {"get", "delete"}
JsonBodyKinds == {"post", "put", "patch"}
MultipartKinds == {"tools.execute", "tools.batchExecute", "vfs.uploadFile"}
CallKinds == BodilessKinds \cup JsonBodyKinds \cup MultipartKinds

\* The headers of the request config: tools.execute, tools.batchExecute and
\* vfs.uploadFile pass { headers: { 'Content-Type': 'multipart/form-data' } },
\* every other call passes none.
RequestHeaders(kind) ==
    IF kind \in MultipartKinds
    THEN [key |-> "", agent |-> "", contentType |-> MultipartType]
    ELSE NoHeaders

\* axios: a header of the request config replaces the instance's default.
MergeHeaders(defaults, given) ==
    [h \in {"key", "agent", "contentType"} |->
        IF given[h] # "" THEN given[h] ELSE defaults[h]]

\* axios (transformRequest): an object body sent with no content type is
\* serialised as JSON and given the JSON content type.
WithBodyType(headers, kind) ==
    IF kind \in JsonBodyKinds /\ headers.contentType = ""
    THEN [headers EXCEPT !.contentType = JsonType]
    ELSE headers

OutboundHeaders(instance, apiKey, kind) ==
    WithBodyType(MergeHeaders(ClientHeaders(instance, apiKey), RequestHeaders(kind)), kind)

\* The axios instances a caller may supply: any of the three headers preset
\* or not.
SuppliedInstances ==
    {<<[key |-> k, agent |-> a, contentType |-> c]>> :
        k \in {"", ApiKey}, a \in {"", SdkAgent, "custom-agent"}, c \in {"", JsonType}}

HeaderInit ==
    /\ PipeInit
    /\ cfgRetryAttempts = Undef
    /\ ClockInit
    /\ WaitOff
    /\ hpc = "ready"
    /\ instanceHeaders \in {<<>>} \cup SuppliedInstances
    /\ callKind \in CallKinds
    /\ sentHeaders = NoHeaders
    /\ ServiceOff
    /\ MultiOff

\* The call is handed to the transport.
SendCall ==
    /\ hpc = "ready"
    /\ sentHeaders' = OutboundHeaders(instanceHeaders, ApiKey, callKind)
    /\ hpc' = "sent"
    /\ UNCHANGED <<instanceHeaders, callKind>>
    /\ UNCHANGED <<pipeVars, clockVars, waitVars, serviceVars, multiVars>>

HeaderNext == SendCall

HeaderSpec == HeaderInit /\ [][HeaderNext]_vars

----------------------------------------------------------------------------
(* JobsService.waitForCompletion.  Each status fetch, this.get(jobId), is  *)
(* one logical call of the pipeline above, made with a request config of   *)
(* its own.  The clock moves while a backoff or a poll sleep runs.         *)

\* The arguments of the wait.
PollTimeouts == {sec * MsPerSecond : sec \in (-1)..MaxTimeoutSeconds}
PollIntervals == {2 * MsPerSecond, 5 * MsPerSecond}

\* What the transport rejects an attempt of a status fetch with: a network
\* failure, a server error, a missing job, an error without config.
FetchErrors ==
    {NetworkError, PlainError,
     ResponseError(Response(503, <<>>, "", NoHeader)),
     ResponseError(Response(404, <<"job not found">>, "", NoHeader))}

\* No fetch count a wait can reach: a guard on the model's counters.
FetchCap == MaxTimeoutSeconds + 2

\* Mutant of LoopContinues: the deadline itself still counts as in time.
LoopContinuesInclusive(elapsed, limit) == elapsed <= limit

\* while (Date.now() - startTime < timeout)
LoopContinues(elapsed, limit) == elapsed < limit

\* Mutants of ObserveOutcome: a branch of the if-chain is missing or wrong.
ObserveOutcomeCompletedIgnored(job) ==
    CASE job.status = "failed" -> "fail"
      [] job.status = "cancelled" -> "cancel"
      [] OTHER -> "sleep"
ObserveOutcomeFailedIgnored(job) ==
    CASE job.status = "completed" -> "return"
      [] job.status = "cancelled" -> "cancel"
      [] OTHER -> "sleep"
ObserveOutcomeRunningReturned(job) ==
    CASE job.status \in {"completed", "running"} -> "return"
      [] job.status = "failed" -> "fail"
      [] job.status = "cancelled" -> "cancel"
      [] OTHER -> "sleep"

\* The if-chain on job.status: return, throw, or fall through to the sleep.
ObserveOutcome(job) ==
    CASE job.status = "completed" -> "return"
      [] job.status = "failed" -> "fail"
      [] job.status = "cancelled" -> "cancel"
      [] OTHER -> "sleep"

\* Mutant of FailedError: the job's error detail is left out.
FailedErrorNoDetail(jobId, job) == PlainErrorOf(<<"Job ", jobId, " failed">>)

\* throw new Error(`Job ${jobId} failed: ${job.error}`)
FailedError(jobId, job) == PlainErrorOf(FailedMessage(jobId, job.error))

\* Mutant of PollSleepElapsed: the sleep is not awaited.
PollSleepElapsedNoAwait(elapsed, wanted) == TRUE

\* await new Promise(resolve => setTimeout(resolve, pollInterval))
PollSleepElapsed(elapsed, wanted) == elapsed >= wanted

\* Mutant of FetchRejection: the failure is reported as a timeout.
FetchRejectionAsTimeout(error) == PlainErrorOf(TimeoutMessage(JobId, timeout))

\* const job = await this.get(jobId) in an async function with no try/catch:
\* what get rejects with is what waitForCompletion rejects with.
FetchRejection(error) == error

PollInit ==
    /\ PipeInit
    /\ ClockInit
    /\ HeadersOff
    /\ ServiceOff
    /\ MultiOff
    /\ wpc = "head"
    /\ timeout \in PollTimeouts
    /\ pollInterval \in PollIntervals
    /\ startTime = now
    /\ fetches = 0
    /\ fetchesInFlight = 0
    /\ pollSlept = 0
    /\ pollSleeps = 0
    /\ nonTerminal = 0
    /\ lastJob = NoJob
    /\ observedAt = 0
    /\ wresult = NoJob
    /\ wthrown = NoValue
    /\ abandoned = FALSE

\* The loop condition holds: const job = await this.get(jobId) makes a new
\* logical call, whose first attempt is issued.
WaitFetch ==
    /\ wpc = "head"
    /\ LoopContinues(now - startTime, timeout)
    /\ fetches < FetchCap
    /\ wpc' = "fetching"
    /\ fetches' = fetches + 1
    /\ fetchesInFlight' = fetchesInFlight + 1
    /\ pc' = "inflight"
    /\ retry' = Undef
    /\ attempts' = 1
    /\ inflight' = inflight + 1
    /\ finalError' = NoValue
    /\ delay' = 0
    /\ slept' = 0
    /\ sleeps' = <<>>
    /\ rejection' = NoValue
    /\ result' = NoResult
    /\ thrown' = NoValue
    /\ raisedCount' = 0
    /\ failures' = 0
    /\ transientOnly' = TRUE
    /\ firstPermanent' = FALSE
    /\ UNCHANGED <<cfgRetryAttempts, retryAttempts>>
    /\ UNCHANGED <<timeout, pollInterval, startTime, pollSlept, pollSleeps,
                   nonTerminal, lastJob, observedAt, wresult, wthrown, abandoned>>
    /\ UNCHANGED <<clockVars, headerVars, serviceVars, multiVars>>

\* The loop condition fails: throw new Error(`... timed out after ...`).
WaitTimeout ==
    /\ wpc = "head"
    /\ ~LoopContinues(now - startTime, timeout)
    /\ wthrown' = PlainErrorOf(TimeoutMessage(JobId, timeout))
    /\ wpc' = "thrown"
    /\ UNCHANGED <<timeout, pollInterval, startTime, fetches, fetchesInFlight,
                   pollSlept, pollSleeps, nonTerminal, lastJob, observedAt,
                   wresult, abandoned>>
    /\ UNCHANGED <<pipeVars, clockVars, headerVars, serviceVars, multiVars>>

\* this.get(jobId) resolved with response.data.job: the if-chain on its
\* status, up to the return, the throw, or the start of the poll sleep.
WaitObserve ==
    /\ wpc = "fetching"
    /\ pc = "returned"
    /\ LET job == result.data.payload
       IN /\ lastJob' = job
          /\ observedAt' = now
          /\ fetchesInFlight' = fetchesInFlight - 1
          /\ IF ~job.present
             THEN \* job is undefined: reading job.status throws
                  /\ wthrown' = MissingJobError
                  /\ wpc' = "thrown"
                  /\ UNCHANGED <<wresult, pollSlept, nonTerminal>>
             ELSE CASE ObserveOutcome(job) = "return" ->
                         /\ wresult' = job
                         /\ wpc' = "returned"
                         /\ UNCHANGED <<wthrown, pollSlept, nonTerminal>>
                    [] ObserveOutcome(job) = "fail" ->
                         /\ wthrown' = FailedError(JobId, job)
                         /\ wpc' = "thrown"
                         /\ UNCHANGED <<wresult, pollSlept, nonTerminal>>
                    [] ObserveOutcome(job) = "cancel" ->
                         /\ wthrown' = PlainErrorOf(CancelledMessage(JobId))
                         /\ wpc' = "thrown"
                         /\ UNCHANGED <<wresult, pollSlept, nonTerminal>>
                    [] OTHER ->
                         /\ wpc' = "sleeping"
                         /\ pollSlept' = 0
                         /\ nonTerminal' = nonTerminal + 1
                         /\ UNCHANGED <<wresult, wthrown>>
    /\ UNCHANGED <<timeout, pollInterval, startTime, fetches, pollSleeps, abandoned>>
    /\ UNCHANGED <<pipeVars, clockVars, headerVars, serviceVars, multiVars>>

\* this.get(jobId) rejected: the error leaves waitForCompletion as it is.
WaitFetchFailed ==
    /\ wpc = "fetching"
    /\ pc = "raised"
    /\ wthrown' = FetchRejection(thrown)
    /\ wpc' = "thrown"
    /\ fetchesInFlight' = fetchesInFlight - 1
    /\ UNCHANGED <<timeout, pollInterval, startTime, fetches, pollSlept,
                   pollSleeps, nonTerminal, lastJob, observedAt, wresult, abandoned>>
    /\ UNCHANGED <<pipeVars, clockVars, headerVars, serviceVars, multiVars>>

\* One second of the poll sleep passes.
PollTick ==
    /\ wpc = "sleeping"
    /\ pollSlept < pollInterval
    /\ pollSlept' = pollSlept + MsPerSecond
    /\ now' = now + MsPerSecond
    /\ UNCHANGED <<wpc, timeout, pollInterval, startTime, fetches, fetchesInFlight,
                   pollSleeps, nonTerminal, lastJob, observedAt, wresult,
                   wthrown, abandoned>>
    /\ UNCHANGED <<pipeVars, fetchTime, headerVars, serviceVars, multiVars>>

\* The poll timer has fired: back to the loop condition.
WaitWake ==
    /\ wpc = "sleeping"
    /\ PollSleepElapsed(pollSlept, pollInterval)
    /\ pollSleeps' = pollSleeps + 1
    /\ wpc' = "head"
    /\ UNCHANGED <<timeout, pollInterval, startTime, fetches, fetchesInFlight,
                   pollSlept, nonTerminal, lastJob, observedAt, wresult,
                   wthrown, abandoned>>
    /\ UNCHANGED <<pipeVars, clockVars, headerVars, serviceVars, multiVars>>

\* The caller stops waiting for the promise (it lost a race, its own timer
\* fired).  waitForCompletion takes no signal and reads no flag.
Abandon ==
    /\ wpc \in {"head", "fetching", "sleeping"}
    /\ ~abandoned
    /\ abandoned' = TRUE
    /\ UNCHANGED <<wpc, timeout, pollInterval, startTime, fetches, fetchesInFlight,
                   pollSlept, pollSleeps, nonTerminal, lastJob, observedAt,
                   wresult, wthrown>>
    /\ UNCHANGED <<pipeVars, clockVars, headerVars, serviceVars, multiVars>>

PollNext ==
    \/ WaitFetch
    \/ WaitTimeout
    \/ WaitObserve
    \/ WaitFetchFailed
    \/ PollTick
    \/ WaitWake
    \/ Abandon
    \/ \E resp \in JobResponses : AttemptSucceeds(resp)
    \/ \E error \in FetchErrors : AttemptFails(error)
    \/ Tick
    \/ Retry
    \/ RequestCatch

PollSpec == PollInit /\ [][PollNext]_vars

----------------------------------------------------------------------------
(* One call of a service method.  A service method builds request configs  *)
(* with client.get and client.post and hands them to client.request; the   *)
(* logical call behind each request is the pipeline above, seen here by    *)
(* its outcome only: a response, or the error request() throws.            *)

\* An optional argument or property: << >> when absent, <<value>> otherwise.
Absent == <<>>
Some(v) == <<v>>

\* ToBoolean of an optional string: undefined and '' are falsy.
TruthyText(opt) == opt # Absent /\ opt[1] # ""

\* A request config: method, url, params, data and what a trailing config
\* argument spreads over them (headers, responseType).
NoParams == {}
NoData == [kind |-> "none"]
NoRequestHeaders == {}

\* get(url, params): this.request({ method: 'GET', url, params })
ClientGet(url, params) ==
    [method |-> "GET", url |-> url, params |-> params, data |-> NoData,
     headers |-> NoRequestHeaders, responseType |-> Undef]

\* post(url, data, config): this.request({ method: 'POST', url, data, ...config })
ClientPost(url, data, config) ==
    [method |-> "POST", url |-> url, params |-> NoParams, data |-> data,
     headers |-> config.headers, responseType |-> config.responseType]

\* post called without a third argument: nothing is spread.
NoConfig == [headers |-> NoRequestHeaders, responseType |-> Undef]

\* What client.request throws when the transport rejects with error and the
\* interceptor gives up: an error without config makes the interceptor throw
\* the TypeError of `config.retry = 0`, any other is put through
\* handleError; request()'s catch applies handleError to either.
RequestFailure(error) ==
    IF ~error.config THEN handleError(TypeErrorValue)
    ELSE handleError(handleError(error))

RequestFailures == {RequestFailure(error) : error \in FetchErrors}

(* GraphQLService.query and mutate *)

GraphQLMessages == {"not found", "forbidden"}

RECURSIVE SeqsUpTo(_, _)
SeqsUpTo(S, n) ==
    IF n = 0 THEN {<<>>}
    ELSE SeqsUpTo(S, n - 1)
         \cup {Append(sq, x) : sq \in {t \in SeqsUpTo(S, n - 1) : Len(t) = n - 1},
                               x \in S}

\* response.data of /api/graphql: data is optional; errors is undefined or
\* an array of { message }.
GraphQLErrorArrays == {<<"array", sq>> : sq \in SeqsUpTo(GraphQLMessages, MaxErrors)}
GraphQLResponses ==
    {[data |-> d, errors |-> e] :
        d \in {Absent, Some("viewer")}, e \in {Undef} \cup GraphQLErrorArrays}

GraphQLCalls ==
    {[op |-> o, query |-> "{ health }", variables |-> v, operationName |-> n] :
        o \in {"query", "mutate"},
        v \in {Absent, Some("vars")},
        n \in {Absent, Some(""), Some("Health")}}

\* const payload = { query }; variables and operationName are added when
\* truthy (an object is always truthy, an empty string is not).
GraphQLPayload(c) ==
    [kind |-> "json",
     query |-> c.query,
     variables |-> c.variables,
     operationName |-> IF TruthyText(c.operationName) THEN c.operationName ELSE Absent]

\* Mutant of HasErrors: errors beside data are let through.
HasErrorsWithoutData(data) ==
    data.errors # Undef /\ Len(data.errors[2]) > 0 /\ data.data = Absent

\* data.errors && data.errors.length > 0
HasErrors(data) == data.errors # Undef /\ Len(data.errors[2]) > 0

\* Array.prototype.join
RECURSIVE Join(_, _)
Join(texts, sep) ==
    IF texts = <<>> THEN <<>>
    ELSE IF Len(texts) = 1 THEN <<texts[1]>>
    ELSE <<texts[1], sep>> \o Join(Tail(texts), sep)

\* new Error(`GraphQL errors: ${errorMessages}`)
GraphQLError(data) ==
    PlainErrorOf(<<"GraphQL errors: ">> \o Join(data.errors[2], "; "))

(* JobsService.downloadResults and VFSService.downloadFile *)

DownloadIds == {"id-1", "id-2", "id-3"}

DownloadCalls ==
    {[op |-> o, id |-> i] : o \in {"downloadResults", "downloadFile"}, i \in DownloadIds}

\* `/api/v2/jobs/${jobId}/download`, `/api/v2/vfs/nodes/${nodeId}/download`
DownloadUrl(c) ==
    IF c.op = "downloadResults" THEN <<"/api/v2/jobs/", c.id, "/download">>
    ELSE <<"/api/v2/vfs/nodes/", c.id, "/download">>

\* The second argument of this.client.get in both methods.
BlobOption == {<<"responseType", "blob">>}

\* The request both methods hand to the client.
DownloadRequest(c) == ClientGet(DownloadUrl(c), BlobOption)

\* The bodies the server answers a download with: bytes that are no JSON
\* text, and bytes that are.
DownloadBodies ==
    {[bytes |-> "PK-archive", json |-> FALSE],
     [bytes |-> "png-image", json |-> FALSE],
     [bytes |-> "{\"ok\":true}", json |-> TRUE]}

\* What axios puts in response.data: a Blob when the request's responseType
\* is 'blob'; without a responseType the parsed JSON when the body
\* parses, the body as a string when it does not.
Decode(request, body) ==
    IF request.responseType = <<"string", "blob">> THEN <<"Blob", body.bytes>>
    ELSE IF body.json THEN <<"object", body.bytes>>
    ELSE <<"string", body.bytes>>

(* WebhooksService.verifySignature *)

WebhookPayloads == {"{}", "{\"event\":\"job.completed\"}", "{\"event\":\"job.failed\"}"}
WebhookSecrets == {"s1", "s2", "s3"}

\* The signature the server computes over a payload under a secret, as a
\* term: equal for equal payload and secret only.
SignatureOf(payload, secret) == <<"hmac", secret, payload>>

WebhookSignatures ==
    {SignatureOf(p, k) : p \in WebhookPayloads, k \in WebhookSecrets}
    \cup {<<"hmac", "", "">>}

VerifyCalls ==
    {[op |-> "verifySignature", payload |-> p, signature |-> g, secret |-> k] :
        p \in WebhookPayloads, g \in WebhookSignatures, k \in WebhookSecrets}

\* verifySignature(payload, signature, secret): return true
verifySignature(payload, signature, secret) == TRUE

(* ToolsService.execute *)

\* An element of files and audioFiles: a File object or a path string.
FileObject(name) == <<"File", name>>
FilePath(path) == <<"string", path>>
IsPath(file) == file[1] = "string"

FileArgs == {FileObject("photo.png"), FilePath("image.jpg")}
AudioArgs == {FileObject("voice.mp3"), FilePath("voice.mp3")}

ExecuteCalls ==
    {[op |-> "execute", toolId |-> "remove_bg", files |-> f, options |-> o,
      audioFiles |-> a] :
        f \in SeqsUpTo(FileArgs, MaxFiles),
        o \in {Absent, Some("{\"quality\":\"high\"}")},
        a \in {Absent} \cup {Some(sq) : sq \in SeqsUpTo(AudioArgs, 1)}}

\* The forEach over files, and over audioFiles when given, throws on the
\* first path string, before any request is built.
ExecuteThrows(c) ==
    \/ \E i \in 1..Len(c.files) : IsPath(c.files[i])
    \/ c.audioFiles # Absent /\ \E i \in 1..Len(c.audioFiles[1]) : IsPath(c.audioFiles[1][i])

FilePathError ==
    PlainErrorOf(<<"File paths not supported in browser environment. Use File objects instead.">>)

\* formData.append(`file_${index}`, file), (`audio_${index}`, file),
\* ('options', JSON.stringify(options))
FormEntries(c) ==
    [i \in 1..Len(c.files) |-> <<<<"file_", ToString(i - 1)>>, c.files[i]>>]
    \o (IF c.audioFiles = Absent THEN <<>>
        ELSE [i \in 1..Len(c.audioFiles[1]) |->
                 <<<<"audio_", ToString(i - 1)>>, c.audioFiles[1][i]>>])
    \o (IF c.options = Absent THEN <<>> ELSE << <<<<"options">>, c.options[1]>> >>)

ExecuteRequest(c) ==
    ClientPost(<<"/api/v2/tools/", c.toolId, "/execute">>,
               [kind |-> "form", entries |-> FormEntries(c)],
               [headers |-> {<<"Content-Type", "multipart/form-data">>},
                responseType |-> Undef])

CreatedJobs == {Job("pending", <<>>), Job("running", <<>>)}

(* ChatService.createConversation, sendMessage, createAndSendMessage *)

DefaultModel == "llama3.2"

\* The two files of the chat service differ in the property of the created
\* conversation they address the message to: uuid (services/chat.ts) and
\* id (part_003).
ChatBuilds == {"uuid", "id"}

ChatCalls ==
    {[op |-> "createAndSendMessage", build |-> b, title |-> "Ideas",
      content |-> t, model |-> m, systemPrompt |-> p] :
        b \in ChatBuilds,
        t \in {"hello", "bye"},
        m \in {Absent, Some("auto")},
        p \in {Absent, Some(""), Some("be brief")}}

\* response.data.conversation of the create request: undefined, or a
\* conversation with its uuid and its optional id.
Conversation(uuid, id) == [uuid |-> uuid, id |-> id]
CreatedConversations ==
    {Absent} \cup {Some(Conversation(u, i)) : u \in {"c-1", "c-2"}, i \in {Undef, Num(7)}}

SentMessages == {"m-1", "m-2"}

\* const data = { title, model }; system_prompt is added when truthy.
CreateConversationRequest(c) ==
    ClientPost(<<"/api/v2/chat/conversations">>,
               [kind |-> "json", title |-> c.title,
                model |-> IF c.model = Absent THEN DefaultModel ELSE c.model[1],
                system_prompt |-> IF TruthyText(c.systemPrompt) THEN c.systemPrompt
                                  ELSE Absent],
               NoConfig)

\* `${value}` of a string, a number or undefined
TemplateText(v) ==
    IF v = Undef THEN "undefined"
    ELSE IF v[1] = "number" THEN ToString(v[2])
    ELSE v[2]

\* conversation.uuid, respectively conversation.id
SendTarget(c, conversation) ==
    IF c.build = "uuid" THEN <<"string", conversation.uuid>> ELSE conversation.id

\* `/api/v2/chat/conversations/${conversationUuid}/messages`
MessagesUrl(target) ==
    <<"/api/v2/chat/conversations/", TemplateText(target), "/messages">>

SendMessageRequest(c, conversation) ==
    ClientPost(MessagesUrl(SendTarget(c, conversation)),
               [kind |-> "json", content |-> c.content],
               NoConfig)

\* What reading conversation.uuid, respectively conversation.id, of the
\* undefined conversation throws.
MissingConversationError(c) ==
    [cls |-> "TypeError",
     message |-> IF c.build = "uuid"
                 THEN <<"Cannot read properties of undefined (reading 'uuid')">>
                 ELSE <<"Cannot read properties of undefined (reading 'id')">>,
     config |-> FALSE, request |-> FALSE, response |-> <<>>, retryAfter |-> Undef]

(* The state machine of the service call. *)

ServiceInit ==
    /\ PipeInit
    /\ cfgRetryAttempts = Undef
    /\ ClockInit
    /\ WaitOff
    /\ HeadersOff
    /\ MultiOff
    /\ spc = "ready"
    /\ \/ call \in GraphQLCalls
       \/ call \in DownloadCalls
       \/ call \in VerifyCalls
       \/ call \in ExecuteCalls
       \/ call \in ChatCalls
    /\ requests = <<>>
    /\ local = NoLocal
    /\ sreturned = NoReturn
    /\ sthrown = NoValue

ServiceFrame == UNCHANGED <<pipeVars, clockVars, waitVars, headerVars, multiVars>>

\* query / mutate: this.client.post('/api/graphql', payload)
GraphQLSend ==
    /\ spc = "ready"
    /\ call.op \in {"query", "mutate"}
    /\ requests' = Append(requests, ClientPost(<<"/api/graphql">>, GraphQLPayload(call), NoConfig))
    /\ spc' = "awaiting"
    /\ UNCHANGED <<call, local, sreturned, sthrown>>
    /\ ServiceFrame

\* const data = response.data; the check for GraphQL errors; return data
GraphQLReply(data) ==
    /\ spc = "awaiting"
    /\ call.op \in {"query", "mutate"}
    /\ local' = Some(data)
    /\ IF HasErrors(data)
       THEN /\ sthrown' = GraphQLError(data)
            /\ spc' = "thrown"
            /\ UNCHANGED sreturned
       ELSE /\ sreturned' = <<"graphql", data>>
            /\ spc' = "returned"
            /\ UNCHANGED sthrown
    /\ UNCHANGED <<call, requests>>
    /\ ServiceFrame

\* downloadResults / downloadFile: this.client.get(url, { responseType: 'blob' })
DownloadSend ==
    /\ spc = "ready"
    /\ call.op \in {"downloadResults", "downloadFile"}
    /\ requests' = Append(requests, DownloadRequest(call))
    /\ spc' = "awaiting"
    /\ UNCHANGED <<call, local, sreturned, sthrown>>
    /\ ServiceFrame

\* return response.data
DownloadReply(body) ==
    /\ spc = "awaiting"
    /\ call.op \in {"downloadResults", "downloadFile"}
    /\ sreturned' = <<"body", Decode(requests[1], body)>>
    /\ spc' = "returned"
    /\ UNCHANGED <<call, requests, local, sthrown>>
    /\ ServiceFrame

\* webhooks.verifySignature(payload, signature, secret)
VerifySignature ==
    /\ spc = "ready"
    /\ call.op = "verifySignature"
    /\ sreturned' = <<"boolean", verifySignature(call.payload, call.signature, call.secret)>>
    /\ spc' = "returned"
    /\ UNCHANGED <<call, requests, local, sthrown>>
    /\ ServiceFrame

\* tools.execute: the FormData is filled, then posted.
ToolsExecute ==
    /\ spc = "ready"
    /\ call.op = "execute"
    /\ IF ExecuteThrows(call)
       THEN /\ sthrown' = FilePathError
            /\ spc' = "thrown"
            /\ UNCHANGED requests
       ELSE /\ requests' = Append(requests, ExecuteRequest(call))
            /\ spc' = "awaiting"
            /\ UNCHANGED sthrown
    /\ UNCHANGED <<call, local, sreturned>>
    /\ ServiceFrame

\* return response.data.job
ToolsReply(job) ==
    /\ spc = "awaiting"
    /\ call.op = "execute"
    /\ sreturned' = <<"job", job>>
    /\ spc' = "returned"
    /\ UNCHANGED <<call, requests, local, sthrown>>
    /\ ServiceFrame

\* createAndSendMessage: await this.createConversation(title, model, systemPrompt)
ChatCreate ==
    /\ spc = "ready"
    /\ call.op = "createAndSendMessage"
    /\ requests' = Append(requests, CreateConversationRequest(call))
    /\ spc' = "creating"
    /\ UNCHANGED <<call, local, sreturned, sthrown>>
    /\ ServiceFrame

\* createConversation returned response.data.conversation:
\* await this.sendMessage(conversation.uuid, content)
ChatCreated(created) ==
    /\ spc = "creating"
    /\ local' = created
    /\ IF created = Absent
       THEN /\ sthrown' = MissingConversationError(call)
            /\ spc' = "thrown"
            /\ UNCHANGED requests
       ELSE /\ requests' = Append(requests, SendMessageRequest(call, created[1]))
            /\ spc' = "sending"
            /\ UNCHANGED sthrown
    /\ UNCHANGED <<call, sreturned>>
    /\ ServiceFrame

\* sendMessage returned response.data.message: return { conversation, message }
ChatSent(message) ==
    /\ spc = "sending"
    /\ sreturned' = <<"chat", local[1], message>>
    /\ spc' = "returned"
    /\ UNCHANGED <<call, requests, local, sthrown>>
    /\ ServiceFrame

\* The request in progress failed: client.request throws, and so does the
\* service method, which has no try/catch.
RequestRejected(error) ==
    /\ spc \in {"awaiting", "creating", "sending"}
    /\ sthrown' = error
    /\ spc' = "thrown"
    /\ UNCHANGED <<call, requests, local, sreturned>>
    /\ ServiceFrame

ServiceNext ==
    \/ GraphQLSend
    \/ \E data \in GraphQLResponses : GraphQLReply(data)
    \/ DownloadSend
    \/ \E body \in DownloadBodies : DownloadReply(body)
    \/ VerifySignature
    \/ ToolsExecute
    \/ \E job \in CreatedJobs : ToolsReply(job)
    \/ ChatCreate
    \/ \E created \in CreatedConversations : ChatCreated(created)
    \/ \E message \in SentMessages : ChatSent(message)
    \/ \E error \in RequestFailures : RequestRejected(error)

ServiceSpec == ServiceInit /\ [][ServiceNext]_vars

----------------------------------------------------------------------------
(* Concurrent logical calls of the clients constructed over one axios      *)
(* instance supplied by the caller (config.axiosInstance).  Each           *)
(* constructor registers its response interceptor on the instance; each    *)
(* logical call is made with a request config object of its own, on which  *)
(* the interceptor keeps the counter config.retry.                         *)

CallIds == {1, 2}
ClientIds == {1, 2}

\* What the transport rejects the attempts with: errors that carry their
\* request config.
CallErrors ==
    {NetworkError, ResponseError(Response(404, <<"job not found">>, "", NoHeader))}

\* later: the handlers registered after the first on the instance, counted
\* at each dispatch of the call (axios collects the handlers of a request
\* when it is dispatched) and summed over its dispatches.
IdleCall ==
    [client |-> 0, pc |-> "idle", attempts |-> 0, failures |-> 0, delay |-> 0,
     slept |-> 0, sleeps |-> <<>>, later |-> 0, finalError |-> NoValue,
     rejection |-> NoValue, thrown |-> NoValue]

\* Mutant of ConfigOf: every logical call counts on one shared object.
ConfigOfShared(c) == 1

\* The request config object of a logical call: request() is handed an
\* object literal made by get, post, put, patch or delete for this call.
ConfigOf(c) == c

\* The rejected handler of an interceptor registered after the first: it is
\* handed what the handler before it rejected with.  An error of the SDK has
\* no config, so `config.retry = 0` throws the TypeError.
LaterHandler(error) == IF error.config THEN error ELSE TypeErrorValue

\* What the chain of response interceptors rejects with when the first
\* handler gives up on error: handleError(error), passed through the later
\* handlers of the dispatch that failed and, as the rejection of each
\* `return this.axios(config)`, through those of the dispatches around it.
RECURSIVE ThroughHandlers(_, _)
ThroughHandlers(error, n) ==
    IF n = 0 THEN error ELSE ThroughHandlers(LaterHandler(error), n - 1)

ChainRejection(error, later) == ThroughHandlers(handleError(error), later)

\* The handlers after the first that a request dispatched now passes.
LaterHandlers == Len(chain) - 1

\* The retry limit the first handler of the chain compares with: the
\* retryAttempts of the client constructed first.
HandlingLimit == chain[1]

MultiInit ==
    /\ PipeInit
    /\ cfgRetryAttempts = Undef
    /\ ClockInit
    /\ WaitOff
    /\ HeadersOff
    /\ ServiceOff
    /\ chain = <<>>
    /\ calls = [c \in CallIds |-> IdleCall]
    /\ configRetry = [c \in CallIds |-> Undef]

MultiFrame == UNCHANGED <<pipeVars, clockVars, waitVars, headerVars, serviceVars>>

\* new ZetsubouClient({ apiKey, retryAttempts: given, axiosInstance }):
\* this.axios.interceptors.response.use(...), at any time.
Construct(given) ==
    /\ Len(chain) < Cardinality(ClientIds)
    /\ chain' = Append(chain, EffectiveRetryAttempts(given))
    /\ UNCHANGED <<calls, configRetry>>
    /\ MultiFrame

\* client k's request(config): this.axios.request(config), first attempt.
CallRequest(c, k) ==
    /\ calls[c].pc = "idle"
    /\ k \in 1..Len(chain)
    /\ calls' = [calls EXCEPT ![c] =
                    [@ EXCEPT !.client = k, !.pc = "inflight", !.attempts = 1,
                              !.later = LaterHandlers]]
    /\ configRetry' = [configRetry EXCEPT ![ConfigOf(c)] = Undef]
    /\ UNCHANGED chain
    /\ MultiFrame

\* An attempt of call c resolves with a response.
CallSucceeds(c) ==
    /\ calls[c].pc = "inflight"
    /\ calls' = [calls EXCEPT ![c] = [@ EXCEPT !.pc = "returned"]]
    /\ UNCHANGED <<chain, configRetry>>
    /\ MultiFrame

\* An attempt of call c is rejected: the first handler of the chain.
CallFails(c, error) ==
    /\ calls[c].pc = "inflight"
    /\ LET counter == InitRetry(configRetry[ConfigOf(c)])
       IN IF RetryExhausted(counter, HandlingLimit)
          THEN /\ configRetry' = [configRetry EXCEPT ![ConfigOf(c)] = Num(counter)]
               /\ calls' = [calls EXCEPT ![c] =
                               [@ EXCEPT !.failures = @ + 1,
                                         !.finalError = error,
                                         !.rejection = ChainRejection(error, calls[c].later),
                                         !.pc = "catch"]]
          ELSE /\ configRetry' = [configRetry EXCEPT ![ConfigOf(c)] =
                                     Num(NextRetry(counter))]
               /\ calls' = [calls EXCEPT ![c] =
                               [@ EXCEPT !.failures = @ + 1,
                                         !.delay = BackoffDelay(NextRetry(counter)),
                                         !.slept = 0,
                                         !.pc = "backoff"]]
    /\ UNCHANGED chain
    /\ MultiFrame

\* One second of the backoff timer of call c passes.
CallTick(c) ==
    /\ calls[c].pc = "backoff"
    /\ calls[c].slept < calls[c].delay
    /\ calls' = [calls EXCEPT ![c] = [@ EXCEPT !.slept = @ + MsPerSecond]]
    /\ UNCHANGED <<chain, configRetry>>
    /\ MultiFrame

\* The timer of call c has fired: return this.axios(config).
CallRetry(c) ==
    /\ calls[c].pc = "backoff"
    /\ BackoffElapsed(calls[c].slept, calls[c].delay)
    /\ calls[c].attempts < AttemptCap
    /\ calls' = [calls EXCEPT ![c] =
                    [@ EXCEPT !.sleeps = Append(@, calls[c].slept),
                              !.attempts = @ + 1,
                              !.later = @ + LaterHandlers,
                              !.pc = "inflight"]]
    /\ UNCHANGED <<chain, configRetry>>
    /\ MultiFrame

\* request()'s catch of call c: throw this.handleError(error).
CallCatch(c) ==
    /\ calls[c].pc = "catch"
    /\ calls' = [calls EXCEPT ![c] =
                    [@ EXCEPT !.thrown = handleError(calls[c].rejection),
                              !.pc = "raised"]]
    /\ UNCHANGED <<chain, configRetry>>
    /\ MultiFrame

MultiNext ==
    \/ \E given \in ConfigValues : Construct(given)
    \/ \E c \in CallIds, k \in ClientIds : CallRequest(c, k)
    \/ \E c \in CallIds : CallSucceeds(c)
    \/ \E c \in CallIds, error \in CallErrors : CallFails(c, error)
    \/ \E c \in CallIds : CallTick(c)
    \/ \E c \in CallIds : CallRetry(c)
    \/ \E c \in CallIds : CallCatch(c)

MultiSpec == MultiInit /\ [][MultiNext]_vars

----------------------------------------------------------------------------
(* Claims about the request pipeline. *)

FinalStatus == finalError.response[1].status
HasFinalResponse == finalError.response # <<>>
CounterAtLimit == IsNum(retry) /\ Val(retry) >= retryAttempts

\* The class the error table of the documentation gives a status.
MappedClass(status) ==
    CASE status = 400 -> "ValidationError"
      [] status = 401 -> "AuthenticationError"
      [] status = 404 -> "NotFoundError"
      [] status = 429 -> "RateLimitError"
      [] status \in {500, 502, 503, 504} -> "ServerError"
      [] OTHER -> "ZetsubouError"

\* C1: a call whose final attempt ends with a response of status s throws
\* the error class mapped to s (400 Validation, 401 Authentication, 404
\* NotFound, 429 RateLimit, 500/502/503/504 Server, any other the generic
\* ZetsubouError).
C1_ThrownClassIsMapped ==
    (pc = "raised" /\ HasFinalResponse) => thrown.cls = MappedClass(FinalStatus)

\* The retry-after value the documentation gives a Retry-After header: the
\* integer it parses to, and 60 when it is absent or does not parse.
DocumentedRetryAfter(header) ==
    IF ~header.present \/ ParseInt(header.value) = NaN
    THEN Num(DefaultRetryAfter)
    ELSE ParseInt(header.value)

\* C2: the RateLimitError made for a 429 response carries the integer parsed
\* from the Retry-After header, and 60 when the header is absent or does not
\* parse as a number.
C2_RetryAfterParsedOrSixty ==
    rejection.cls = "RateLimitError" =>
        rejection.retryAfter = DocumentedRetryAfter(finalError.response[1].retryAfter)

\* C3 as stated: with a configured maximum M >= 1, a call whose every attempt
\* fails transiently has been attempted exactly M times when its error is
\* raised.
C3_RaisedAfterExactlyM ==
    (pc = "raised" /\ transientOnly /\ IsNum(cfgRetryAttempts)
        /\ Val(cfgRetryAttempts) >= 1)
    => attempts = Val(cfgRetryAttempts)

\* C3 as amended: with a configured maximum M >= 1, a call whose every
\* attempt fails transiently has been attempted exactly M + 1 times (the
\* first attempt and M retries) when its error is raised.
C3_RaisedAfterExactlyMPlusOne ==
    (pc \in {"catch", "raised"} /\ transientOnly /\ IsNum(cfgRetryAttempts)
        /\ Val(cfgRetryAttempts) >= 1)
    => (attempts = Val(cfgRetryAttempts) + 1 /\ failures = attempts)

C3_Witness ==
    /\ pc = "raised"
    /\ transientOnly
    /\ cfgRetryAttempts = Num(MaxRetryAttempts)
    /\ attempts = MaxRetryAttempts + 1

\* C4: a call whose first attempt ends with a 400, 401 or 404 response is
\* attempted exactly once and no backoff is slept for it.
C4_PermanentFailureNotRetried ==
    firstPermanent => (attempts = 1 /\ pc # "backoff" /\ sleeps = <<>>)

\* C5: the backoff slept before the k-th retry is exactly 2^k seconds, and a
\* backoff has been slept before every retry: the completed backoffs of a
\* call with n attempts are 2, 4, ..., 2^(n-1) seconds.
C5_BackoffIsTwoToTheK ==
    /\ \A k \in 1..Len(sleeps) : sleeps[k] = (2 ^ k) * 1000
    /\ attempts >= 1 => Len(sleeps) = attempts - 1
    /\ pc = "backoff" => delay = (2 ^ attempts) * 1000

C5_Witness ==
    /\ Len(sleeps) = MaxRetryAttempts
    /\ sleeps[MaxRetryAttempts] = (2 ^ MaxRetryAttempts) * 1000
    /\ pc = "inflight"

\* C6 as stated: once the retry counter has reached the maximum, no further
\* attempt is issued.
C6_NoAttemptOnceCounterAtLimit ==
    [][CounterAtLimit => attempts' = attempts]_vars

\* C6 as amended: the retry counter is between 0 and the client's retry limit;
\* one attempt is issued after the counter has reached the limit, and once
\* that attempt has failed no further attempt is issued: the call ends with
\* an error of the SDK's hierarchy.
C6_CounterBoundedAndLastAttemptEnds ==
    /\ [](IsNum(retry) => (Val(retry) >= 0 /\ Val(retry) <= retryAttempts))
    /\ []((failures > retryAttempts) => pc \in {"catch", "raised"})
    /\ []((pc = "raised") => thrown.cls \in SdkClasses)
    /\ [][(CounterAtLimit /\ attempts' # attempts)
            => (failures = retryAttempts /\ attempts' = retryAttempts + 1)]_vars
    /\ [][(pc \in {"catch", "raised"}) => attempts' = attempts]_vars

C6_Witness ==
    /\ pc = "raised"
    /\ retry = Num(retryAttempts)
    /\ failures = retryAttempts + 1

\* C7: a call ends either by returning a response or by throwing exactly one
\* error of the SDK's hierarchy; nothing is visible to the caller before the
\* end, an error is thrown only when the last attempt failed and a response
\* is returned only when the last attempt succeeded.
C7_OneOutcome ==
    /\ pc = "returned" =>
          (result \in SuccessResponses /\ thrown = NoValue /\ raisedCount = 0
           /\ failures = attempts - 1)
    /\ pc = "raised" =>
          (thrown.cls \in SdkClasses /\ result = NoResult /\ raisedCount = 1
           /\ failures = attempts)
    /\ pc \notin {"returned", "raised"} =>
          (thrown = NoValue /\ result = NoResult /\ raisedCount = 0)

C7_Witness ==
    /\ pc = "raised"
    /\ raisedCount = 1
    /\ failures > 1
    /\ finalError = PlainError

\* C8: while no more than the retry limit of attempts have failed, all of
\* them transiently, the call has not given up; an attempt that then succeeds
\* makes the call return that response with no error thrown.
C8_SuccessAfterTransientFailures ==
    /\ (transientOnly /\ failures <= retryAttempts) =>
          (pc \notin {"catch", "raised"} /\ thrown = NoValue)
    /\ pc = "returned" =>
          (result.status \in SuccessStatuses /\ raisedCount = 0
           /\ failures <= retryAttempts /\ attempts = failures + 1)

C8_Witness ==
    /\ pc = "returned"
    /\ transientOnly
    /\ failures = retryAttempts
    /\ result.status = 200

\* C9: at most one attempt is in flight; an attempt after the first is issued
\* only when every earlier attempt has been seen to fail and the backoff in
\* progress has run for its full delay.
C9_AttemptsAreSequential ==
    /\ [](inflight <= 1)
    /\ [][attempts' # attempts =>
            (/\ inflight = 0
             /\ failures = attempts
             /\ attempts > 0 => (pc = "backoff" /\ delay > 0 /\ slept >= delay))]_vars

C9_Witness ==
    /\ attempts = 3
    /\ inflight = 1
    /\ Len(sleeps) = 2

\* C10: a call that has started ends, returned or raised, and never makes
\* more attempts than its retry limit plus one.
C10_CallTerminates ==
    /\ (pc = "inflight") ~> Done
    /\ [](attempts <= retryAttempts + 1)

C10_Witness ==
    /\ Done
    /\ attempts = retryAttempts + 1
    /\ retryAttempts = MaxRetryAttempts

----------------------------------------------------------------------------
(* Claims about the headers and the messages of the pipeline. *)

\* C11: every outbound call, whether the client built its transport or was
\* given one, carries the API key and the SDK's agent string; a call with a
\* JSON body carries the JSON content type and a multipart call the multipart
\* content type.
C11_EveryCallCarriesTheHeaders ==
    hpc = "sent" =>
        /\ sentHeaders.key = ApiKey
        /\ sentHeaders.agent = SdkAgent
        /\ callKind \in JsonBodyKinds => sentHeaders.contentType = JsonType
        /\ callKind \in MultipartKinds => sentHeaders.contentType = MultipartType

NetworkFailureMessage == <<"Network error: Unable to reach the API">>

\* C12: a call that never received a response throws the generic
\* ZetsubouError whose message is the network-failure message; a failure with
\* neither response nor request throws the generic ZetsubouError with the
\* request-construction message.
C12_NoResponseMessages ==
    (pc = "raised" /\ finalError.config /\ finalError.response = <<>>) =>
        /\ thrown.cls = "ZetsubouError"
        /\ finalError.request => thrown.message = NetworkFailureMessage
        /\ ~finalError.request =>
               thrown.message = <<"Request error: ">> \o finalError.message

----------------------------------------------------------------------------
(* Claims about waitForCompletion. *)

Elapsed == now - startTime
TerminalSeen == lastJob.present /\ lastJob.status \in TerminalStatuses
TimedOut == wpc = "thrown" /\ wthrown = PlainErrorOf(TimeoutMessage(JobId, timeout))
Contains(message, text) == \E i \in 1..Len(message) : message[i] = text
Ceil(a, b) == (a + b - 1) \div b

\* C13: when a status fetch reports completed after k fetches that reported
\* a non-terminal status, the wait returns that job, having made exactly
\* k + 1 status fetches and slept exactly k poll intervals.
C13_CompletedAfterKPlusOneFetches ==
    (lastJob.present /\ lastJob.status = "completed") =>
        /\ wpc = "returned"
        /\ wresult = lastJob
        /\ fetches = nonTerminal + 1
        /\ pollSleeps = nonTerminal

C13_Witness ==
    /\ wpc = "returned"
    /\ nonTerminal = 2
    /\ fetches = 3
    /\ pollSleeps = 2

\* C14: once a status fetch has reported a terminal status the wait is over
\* (completed: returned; failed, cancelled: thrown) and makes no further
\* status fetch and no further sleep.
C14_TerminalStatusEndsTheWait ==
    /\ [](TerminalSeen =>
            wpc = (IF lastJob.status = "completed" THEN "returned" ELSE "thrown"))
    /\ [][TerminalSeen =>
            (/\ fetches' = fetches
             /\ pollSleeps' = pollSleeps
             /\ pollSlept' = pollSlept
             /\ wpc' = wpc)]_vars

C14_Witness ==
    /\ TerminalSeen
    /\ lastJob.status = "cancelled"
    /\ fetches = 2
    /\ wpc = "thrown"

\* C15 as stated: no job is returned whose status was first observed after
\* the deadline had passed, and the timeout error names the elapsed duration.
C15_NothingReturnedAfterDeadline ==
    /\ wpc = "returned" => observedAt - startTime <= timeout
    /\ (wpc = "thrown" /\ Contains(wthrown.message, " timed out after ")) =>
           wthrown.message = TimeoutMessage(JobId, Elapsed)

\* C15 as amended: the deadline is looked at only at the loop head.  When the
\* time elapsed there has reached the timeout the wait throws the error
\* naming the job and the configured timeout, and no status fetch is issued
\* then; a status fetch issued before the deadline is awaited and its status
\* acted upon even when it arrives after the deadline.
C15_DeadlineCheckedAtLoopHead ==
    /\ [](TimedOut => (Elapsed >= timeout /\ ~TerminalSeen))
    /\ []((wpc = "thrown" /\ Contains(wthrown.message, " timed out after ")) =>
             wthrown = PlainErrorOf(TimeoutMessage(JobId, timeout)))
    /\ [][(wpc = "head" /\ Elapsed >= timeout /\ wpc' # wpc) =>
             (/\ wpc' = "thrown"
              /\ wthrown' = PlainErrorOf(TimeoutMessage(JobId, timeout))
              /\ fetches' = fetches)]_vars
    /\ [][fetches' # fetches => Elapsed < timeout]_vars
    /\ [][(wpc = "fetching" /\ wpc' = "returned") =>
             (wresult' = result.data.payload /\ wresult'.status = "completed")]_vars

C15_Witness ==
    /\ wpc = "returned"
    /\ observedAt - startTime > timeout
    /\ timeout > 0

\* C16 as stated: with poll interval 5 s and timeout 12 s, the wait for a job
\* that never leaves running times out after its 3rd status fetch.
C16_ThreeFetchesBeforeTimeout ==
    (TimedOut /\ timeout = 12000 /\ pollInterval = 5000) => fetches = 3

\* C16 as amended: when every status fetch is instantaneous, the wait for a
\* job that never reaches a terminal status times out after
\* ceil(timeout / pollInterval) status fetches (3 for 12 s and 5 s); when
\* fetches take time it times out after fewer, and after at least one if the
\* timeout is positive.
C16_FetchesBeforeTimeout ==
    /\ (TimedOut /\ fetchTime = 0) => fetches = Ceil(timeout, pollInterval)
    /\ (TimedOut /\ fetchTime = 0 /\ timeout = 12000 /\ pollInterval = 5000) =>
           fetches = 3
    /\ TimedOut => (fetches <= Ceil(timeout, pollInterval) /\ fetches = nonTerminal)
    /\ (TimedOut /\ timeout > 0) => fetches >= 1

C16_Witness ==
    /\ TimedOut
    /\ fetchTime = 0
    /\ timeout = 12000
    /\ pollInterval = 5000
    /\ fetches = 3

\* C17: the wait returns nothing but a job whose status is completed, the
\* one its last status fetch reported.
C17_OnlyCompletedIsReturned ==
    /\ wpc = "returned" =>
          (wresult.present /\ wresult.status = "completed" /\ wresult = lastJob)
    /\ wpc # "returned" => wresult = NoJob

C17_Witness ==
    /\ wpc = "returned"
    /\ wresult = Job("completed", <<>>)
    /\ nonTerminal = 1

\* C18: a status fetch that reports failed with error detail X makes the
\* wait throw an error whose message contains X; one that reports cancelled
\* makes it throw the 'was cancelled' error, whose message differs from
\* every failed message and every timeout message.
C18_FailedAndCancelledErrors ==
    /\ (lastJob.present /\ lastJob.status = "failed") =>
          /\ wpc = "thrown"
          /\ wthrown.cls = "Error"
          /\ lastJob.error # <<>> => Contains(wthrown.message, lastJob.error[1])
    /\ (lastJob.present /\ lastJob.status = "cancelled") =>
          /\ wpc = "thrown"
          /\ wthrown.cls = "Error"
          /\ Contains(wthrown.message, " was cancelled")
          /\ \A e \in ErrorDetails : wthrown.message # FailedMessage(JobId, e)
          /\ \A t \in PollTimeouts : wthrown.message # TimeoutMessage(JobId, t)

C18_Witness ==
    /\ wpc = "thrown"
    /\ lastJob = Job("failed", <<"disk full">>)
    /\ Contains(wthrown.message, "disk full")

\* C19: after the caller has abandoned the wait, no further status fetch is
\* issued for it.
C19_NoFetchAfterAbandon ==
    [][abandoned => fetches' = fetches]_vars

\* C20: at most one status fetch of a wait is in flight, attempts of the
\* pipeline are in flight only within it and one at a time, and a status
\* fetch after the first is issued only when the previous one has resolved
\* and the poll sleep that followed has run for the whole poll interval.
C20_OneStatusFetchInFlight ==
    /\ [](fetchesInFlight <= 1 /\ inflight <= fetchesInFlight)
    /\ [][fetches' # fetches =>
            (/\ fetchesInFlight = 0
             /\ inflight = 0
             /\ fetches > 0 =>
                  (pollSleeps = fetches /\ pollSlept >= pollInterval))]_vars

C20_Witness ==
    /\ fetches = 2
    /\ fetchesInFlight = 1
    /\ attempts = 2
    /\ inflight = 1

----------------------------------------------------------------------------
(* Claims about the configured retry limit. *)

\* C22: the retry limit the pipeline uses is the configured value for every
\* configured integer, 0 included (no retries: no backoff is ever slept),
\* and is 3 only when none is configured.
C22_ConfiguredLimitIsUsed ==
    /\ IsNum(cfgRetryAttempts) => retryAttempts = Val(cfgRetryAttempts)
    /\ cfgRetryAttempts = Undef => retryAttempts = DefaultRetryAttempts
    /\ cfgRetryAttempts = Num(0) => (sleeps = <<>> /\ attempts <= 1)

----------------------------------------------------------------------------
(* Further claims about waitForCompletion. *)

\* C27: every status fetch is started at the loop head while the elapsed
\* time is strictly less than the timeout; a wait with timeout <= 0 makes no
\* status fetch, observes no job and ends with the timeout error only.
C27_FetchOnlyBeforeDeadline ==
    /\ [][fetches' # fetches => (wpc = "head" /\ Elapsed < timeout)]_vars
    /\ [](timeout <= 0 =>
            (/\ fetches = 0
             /\ lastJob = NoJob
             /\ wresult = NoJob
             /\ wpc \in {"head", "thrown"}
             /\ wpc = "thrown" => TimedOut))
    /\ [][(timeout <= 0 /\ wpc = "head" /\ wpc' # wpc) => now' = startTime]_vars

C27_Witness ==
    /\ timeout <= 0
    /\ TimedOut
    /\ fetches = 0
    /\ now = startTime

\* C28: when the logical call of a status fetch raises, the wait ends by
\* throwing that very error, which is none of its own timeout, failed and
\* cancelled errors, and makes no further status fetch and no further sleep.
C28_FetchFailureEndsTheWait ==
    /\ []((pc = "raised" /\ wpc # "fetching") =>
            (/\ wpc = "thrown"
             /\ wthrown = thrown
             /\ wresult = NoJob
             /\ ~Contains(wthrown.message, " timed out after ")
             /\ ~Contains(wthrown.message, " failed: ")
             /\ ~Contains(wthrown.message, " was cancelled")))
    /\ [][pc = "raised" =>
            (/\ fetches' = fetches
             /\ pollSleeps' = pollSleeps
             /\ pollSlept' = pollSlept
             /\ attempts' = attempts)]_vars

C28_Witness ==
    /\ pc = "raised"
    /\ wpc = "thrown"
    /\ wthrown = thrown
    /\ fetches = 2
    /\ pollSleeps = 1

----------------------------------------------------------------------------
(* Claims about the service methods. *)

GraphQLOp == call.op \in {"query", "mutate"}
DownloadOp == call.op \in {"downloadResults", "downloadFile"}
ChatOp == call.op = "createAndSendMessage"

\* C23: query and mutate throw whenever response.data carries a non-empty
\* errors array, with or without data, one Error whose message lists the
\* messages of all errors in order, separated by '; '; with errors absent
\* or empty they return response.data as it came.
C23_GraphQLErrorsAreRaised ==
    (GraphQLOp /\ local # NoLocal) =>
        LET data == local[1]
        IN IF data.errors # Undef /\ data.errors[2] # <<>>
           THEN LET errs == data.errors[2]
                    m == sthrown.message
                IN /\ spc = "thrown"
                   /\ sreturned = NoReturn
                   /\ sthrown.cls = "Error"
                   /\ Len(m) = 2 * Len(errs)
                   /\ m[1] = "GraphQL errors: "
                   /\ \A i \in 1..Len(errs) : m[2 * i] = errs[i]
                   /\ \A i \in 2..Len(errs) : m[2 * i - 1] = "; "
           ELSE /\ spc = "returned"
                /\ sreturned = <<"graphql", data>>
                /\ sthrown = NoValue

C23_Witness ==
    /\ call.op = "mutate"
    /\ spc = "thrown"
    /\ local # NoLocal
    /\ local[1].data # Absent
    /\ local[1].errors = <<"array", <<"forbidden", "not found">> >>

\* C24: the request of downloadResults and downloadFile carries the blob
\* response type as an option of the request and not among its query
\* parameters, and what the methods return is a Blob.
C24_BlobDeclaredAsTransportOption ==
    (DownloadOp /\ Len(requests) = 1) =>
        /\ requests[1].responseType = <<"string", "blob">>
        /\ \A entry \in requests[1].params : entry[1] # "responseType"
        /\ spc = "returned" => sreturned[2][1] = "Blob"

\* C25: verifySignature returns true exactly when the signature is the one
\* of the payload under the secret.
C25_OnlyValidSignaturesVerify ==
    (call.op = "verifySignature" /\ spc = "returned") =>
        (sreturned[2] <=> call.signature = SignatureOf(call.payload, call.secret))

\* C26: tools.execute('remove_bg', ['image.jpg']) hands the execution
\* request to the client and does not throw for the path.
C26_PathsAreSubmitted ==
    (/\ call.op = "execute"
     /\ call.files = <<FilePath("image.jpg")>>
     /\ call.audioFiles = Absent
     /\ spc # "ready") =>
        (Len(requests) = 1 /\ sthrown # FilePathError)

\* The identifiers of a conversation, as they stand in a URL: its uuid, and
\* its id when it has one.
IdentifiersOf(conversation) ==
    {conversation.uuid}
    \cup (IF conversation.id = Undef THEN {} ELSE {ToString(conversation.id[2])})

\* C29: createAndSendMessage hands the client the create-conversation
\* request first and the send-message request only when the creation
\* returned a conversation, addressed to an identifier of that
\* conversation; when the creation fails nothing more is sent; when the
\* sending fails its error is thrown and no further request (no delete) is
\* made.
C29_CreateThenSend ==
    /\ [](ChatOp =>
            /\ Len(requests) <= 2
            /\ \A i \in 1..Len(requests) : requests[i].method = "POST"
            /\ spc = "ready" => Len(requests) = 0
            /\ spc = "creating" => Len(requests) = 1
            /\ spc \in {"sending", "returned"} => Len(requests) = 2
            /\ Len(requests) >= 1 =>
                  (/\ requests[1].url = <<"/api/v2/chat/conversations">>
                   /\ requests[1].data.title = call.title)
            /\ Len(requests) = 2 =>
                  (/\ local # Absent
                   /\ \E identifier \in IdentifiersOf(local[1]) :
                         requests[2].url =
                            <<"/api/v2/chat/conversations/", identifier, "/messages">>
                   /\ requests[2].data.content = call.content)
            /\ spc = "returned" => (sreturned[2] = local[1] /\ sthrown = NoValue))
    /\ [][(ChatOp /\ spc = "creating" /\ spc' = "thrown") =>
            (requests' = requests /\ Len(requests) = 1)]_vars
    /\ [][(ChatOp /\ spc = "sending" /\ spc' = "thrown") =>
            (/\ requests' = requests
             /\ local' = local
             /\ sthrown' \in RequestFailures)]_vars
    /\ [][(ChatOp /\ spc = "thrown") => requests' = requests]_vars

----------------------------------------------------------------------------
(* Claims about concurrent calls and shared instances. *)

Min(a, b) == IF a <= b THEN a ELSE b
Started(c) == calls[c].pc # "idle"
CounterOf(c) == InitRetry(configRetry[c])

\* C21: whatever the interleaving of the logical calls, the retry counter
\* of each call is the number of its own failed attempts (up to the limit),
\* its attempts and its backoff delays follow from that counter alone, and
\* it is given up exactly when its own failures exceed the limit.
C21_RetryStateIsCallLocal ==
    \A c \in CallIds :
        Started(c) =>
            LET m == calls[c]
                n == CounterOf(c)
                done == IF m.pc = "backoff" THEN n - 1 ELSE n
            IN /\ n = Min(m.failures, HandlingLimit)
               /\ m.attempts = done + 1
               /\ m.sleeps = [i \in 1..done |-> (2 ^ i) * MsPerSecond]
               /\ m.pc = "backoff" => m.delay = (2 ^ n) * MsPerSecond
               /\ m.pc \in {"catch", "raised"} <=> m.failures = HandlingLimit + 1

C21_Witness ==
    /\ Len(chain) = 1
    /\ calls[1].pc = "backoff"
    /\ calls[1].failures = 2
    /\ calls[2].pc = "inflight"
    /\ calls[2].failures = 1
    /\ calls[2].attempts = 2

\* C30: with two clients constructed over one supplied instance, a failing
\* call made through either is attempted according to that client's own
\* retryAttempts and ends with the error that client's pipeline makes of
\* the last failure, as it would over an instance of the client's own.
C30_ClientsOverOneInstanceKeepTheirLimits ==
    \A c \in CallIds :
        (Len(chain) = 2 /\ calls[c].pc = "raised") =>
            /\ calls[c].attempts = chain[calls[c].client] + 1
            /\ calls[c].thrown = handleError(handleError(calls[c].finalError))

====
